---- MODULE Spec2Model ----
(***************************************************************************)
(* Live-graph core of src/101.py (class StockApp): the price buffer, the   *)
(* zoom factor, the selected instrument, the 3-second refresh loop and the *)
(* values update_live_graph derives from the buffer (trend, colour, pad).  *)
(*                                                                         *)
(* Python floats are IEEE-754 binary64.  They are modelled exactly for the *)
(* non-negative finite normal range the program works in: a value is a     *)
(* 53-bit mantissa and a binary exponent, products and differences are     *)
(* rounded to nearest, ties to even.  The mantissa does not fit a TLC      *)
(* integer, so it is kept as a little-endian sequence of base-2^14 limbs.  *)
(***************************************************************************)
EXTENDS Integers, Sequences, FiniteSets

(***************************************************************************)
(* Natural numbers of arbitrary size: little-endian limbs, no leading zero *)
(* limb, zero is the empty sequence.                                       *)
(***************************************************************************)
\* 14-bit limbs: a product of two limbs plus a carry stays below 2^31
LimbBits == 2 * 7
Base == 2 ^ LimbBits

RECURSIVE BTrim(_)
BTrim(a) == IF a = <<>> THEN <<>>
            ELSE IF a[Len(a)] = 0 THEN BTrim(SubSeq(a, 1, Len(a) - 1))
            ELSE a

RECURSIVE BFromInt(_)
BFromInt(n) == IF n = 0 THEN <<>> ELSE <<n % Base>> \o BFromInt(n \div Base)

Limb(a, i) == IF i <= Len(a) THEN a[i] ELSE 0

RECURSIVE BAddFrom(_, _, _, _)
BAddFrom(a, b, i, carry) ==
    IF i > Len(a) /\ i > Len(b)
    THEN (IF carry = 0 THEN <<>> ELSE <<carry>>)
    ELSE LET s == Limb(a, i) + Limb(b, i) + carry
         IN  <<s % Base>> \o BAddFrom(a, b, i + 1, s \div Base)

BAdd(a, b) == BAddFrom(a, b, 1, 0)

\* a - b for a >= b
RECURSIVE BSubFrom(_, _, _, _)
BSubFrom(a, b, i, borrow) ==
    IF i > Len(a) THEN <<>>
    ELSE LET d == Limb(a, i) - Limb(b, i) - borrow
         IN  IF d < 0 THEN <<d + Base>> \o BSubFrom(a, b, i + 1, 1)
             ELSE <<d>> \o BSubFrom(a, b, i + 1, 0)

BSub(a, b) == BTrim(BSubFrom(a, b, 1, 0))

\* -1, 0, 1 as a < b, a = b, a > b
RECURSIVE BCmpFrom(_, _, _)
BCmpFrom(a, b, i) ==
    IF i = 0 THEN 0
    ELSE IF a[i] < b[i] THEN -1
    ELSE IF a[i] > b[i] THEN 1
    ELSE BCmpFrom(a, b, i - 1)

BCmp(a, b) == IF Len(a) < Len(b) THEN -1
              ELSE IF Len(a) > Len(b) THEN 1
              ELSE BCmpFrom(a, b, Len(a))

\* a * c for 0 <= c <= Base
RECURSIVE BMulSmallFrom(_, _, _, _)
BMulSmallFrom(a, c, i, carry) ==
    IF i > Len(a) THEN BFromInt(carry)
    ELSE LET s == a[i] * c + carry
         IN  <<s % Base>> \o BMulSmallFrom(a, c, i + 1, s \div Base)

BMulSmall(a, c) == BTrim(BMulSmallFrom(a, c, 1, 0))

Zeros(n) == [i \in 1..n |-> 0]

BShlLimbs(a, n) == IF a = <<>> THEN <<>> ELSE Zeros(n) \o a

RECURSIVE BMulFrom(_, _, _)
BMulFrom(a, b, i) ==
    IF i > Len(b) THEN <<>>
    ELSE BAdd(BShlLimbs(BMulSmall(a, b[i]), i - 1), BMulFrom(a, b, i + 1))

BMul(a, b) == BMulFrom(a, b, 1)

\* quotient and remainder of a by d, 0 < d <= Base; limbs taken from the top
RECURSIVE BDivSmallFrom(_, _, _, _)
BDivSmallFrom(a, d, i, rem) ==
    IF i = 0 THEN [q |-> <<>>, r |-> rem]
    ELSE LET cur  == rem * Base + a[i]
             rest == BDivSmallFrom(a, d, i - 1, cur % d)
         IN  [q |-> rest.q \o <<cur \div d>>, r |-> rest.r]

BDivSmall(a, d) ==
    LET x == BDivSmallFrom(a, d, Len(a), 0)
    IN  [q |-> BTrim(x.q), r |-> x.r]

BShl(a, k) == BShlLimbs(BMulSmall(a, 2 ^ (k % LimbBits)), k \div LimbBits)

BDropLimbs(a, n) == IF n >= Len(a) THEN <<>> ELSE SubSeq(a, n + 1, Len(a))

BShr(a, k) == BDivSmall(BDropLimbs(a, k \div LimbBits), 2 ^ (k % LimbBits)).q

\* a mod 2^k
BLow(a, k) == BSub(a, BShl(BShr(a, k), k))

RECURSIVE IntBitLen(_)
IntBitLen(n) == IF n = 0 THEN 0 ELSE 1 + IntBitLen(n \div 2)

BBitLen(a) == IF a = <<>> THEN 0
              ELSE LimbBits * (Len(a) - 1) + IntBitLen(a[Len(a)])

BOdd(a) == a # <<>> /\ a[1] % 2 = 1

(***************************************************************************)
(* binary64 values >= 0: [m, e] stands for m * 2^e with 2^52 <= m < 2^53,  *)
(* and zero is [m |-> <<>>, e |-> 0].                                      *)
(***************************************************************************)
\* 52 stored fraction bits and the leading bit
MantBits == 52 + 1

FZero == [m |-> <<>>, e |-> 0]

\* nearest binary64 to (n + f) * 2^e, where 0 <= f < 1 and sticky says f > 0;
\* ties go to the even mantissa
FRound(n, sticky, e) ==
    LET len == BBitLen(n)
    IN  IF n = <<>> THEN FZero
        ELSE IF len <= MantBits
        THEN [m |-> BShl(n, MantBits - len), e |-> e - (MantBits - len)]
        ELSE LET k    == len - MantBits
                 q    == BShr(n, k)
                 r    == BLow(n, k)
                 half == BShl(<<1>>, k - 1)
                 c    == BCmp(r, half)
                 up   == c > 0 \/ (c = 0 /\ (sticky \/ BOdd(q)))
                 q1   == IF up THEN BAdd(q, <<1>>) ELSE q
             IN  IF BBitLen(q1) > MantBits
                 THEN [m |-> BShr(q1, 1), e |-> e + k + 1]
                 ELSE [m |-> q1, e |-> e + k]

\* the binary64 nearest to n / d (n >= 0, 0 < d <= Base): what Python's float
\* parser yields for a decimal literal or a decimal quote such as 2950.35
GuardBits == 5 * LimbBits
FromRatio(n, d) ==
    LET x == BDivSmall(BShl(BFromInt(n), GuardBits), d)
    IN  FRound(x.q, x.r # 0, -GuardBits)

FMul(a, b) == IF a.m = <<>> \/ b.m = <<>> THEN FZero
              ELSE FRound(BMul(a.m, b.m), FALSE, a.e + b.e)

\* a < b, a = b, a > b as -1, 0, 1
FCmp(a, b) ==
    IF a.m = <<>> \/ b.m = <<>>
    THEN (IF a.m = b.m THEN 0 ELSE IF a.m = <<>> THEN -1 ELSE 1)
    ELSE IF a.e < b.e THEN -1
    ELSE IF a.e > b.e THEN 1
    ELSE BCmp(a.m, b.m)

FGe(a, b) == FCmp(a, b) >= 0
FLt(a, b) == FCmp(a, b) < 0

\* a - b for a >= b
FSub(a, b) ==
    IF b.m = <<>> THEN a
    ELSE FRound(BSub(BShl(a.m, a.e - b.e), b.m), FALSE, b.e)

(***************************************************************************)
(* Program constants.                                                      *)
(***************************************************************************)
STOCKS == <<"RELIANCE", "TCS", "INFY", "HDFCBANK", "ICICIBANK", "SBIN",
            "HINDUNILVR", "BHARTIARTL", "AXISBANK", "KOTAKBANK", "WIPRO",
            "LT", "ASIANPAINT", "ITC", "MARUTI">>
REFRESH_MS == 3000
Capacity == 300
ColorUp == "#00ff5f"
ColorDown == "#ff4c4c"
ZoomInStep == FromRatio(8, 10)
ZoomOutStep == FromRatio(125, 100)
PadShare == FromRatio(3, 10)
FlatShare == FromRatio(1, 100)
FOne == FromRatio(1, 1)

(***************************************************************************)
(* Bounds of the exploration.  The environment of a run (the quote source  *)
(* and the user) is one of three scenarios, fixed when the run starts:     *)
(*   cold  ticks and selections are free from the first tick on, and a     *)
(*         fetch takes any of the times of FetchMs;                        *)
(*   zoomy ticks and zoom commands are free from the first tick on;        *)
(*   warm  the first Capacity ticks succeed with the prices of WarmCents   *)
(*         and the user waits; after that ticks and selections are free,   *)
(*         so every free tick meets a full window;                         *)
(*   busy  ticks are free and the user presses the Refresh buttons, which  *)
(*         keep the event loop busy while the next tick is pending.        *)
(* In zoomy, warm and busy runs every fetch takes the time of QuickFetchMs.*)
(***************************************************************************)
NStocks == 2
ColdTicks == 2
ColdSels == 1
ZoomyTicks == 2
MaxZooms == 4
WarmFree == 2
WarmSels == 1
BusyTicks == 2
MaxRefreshes == 1

Tracked == {STOCKS[i] : i \in 1..NStocks}

\* how long nsefetch may take to return or raise, and how long the drawing of
\* lines 142-182 takes, in milliseconds
FetchMs == {400, 700}
QuickFetchMs == {400}
DrawMs == {50}
\* how long after the end of a tick the user presses a Refresh button
WaitMs == {500}

Scenarios ==
    { [name |-> "cold",  warm |-> 0, ticks |-> ColdTicks,
       zooms |-> 0, sels |-> ColdSels, refreshes |-> 0, fetch_ms |-> FetchMs],
      [name |-> "zoomy", warm |-> 0, ticks |-> ZoomyTicks,
       zooms |-> MaxZooms, sels |-> 0, refreshes |-> 0, fetch_ms |-> QuickFetchMs],
      [name |-> "warm",  warm |-> Capacity, ticks |-> Capacity + WarmFree,
       zooms |-> 0, sels |-> WarmSels, refreshes |-> 0, fetch_ms |-> QuickFetchMs],
      [name |-> "busy",  warm |-> 0, ticks |-> BusyTicks,
       zooms |-> 0, sels |-> 0, refreshes |-> MaxRefreshes, fetch_ms |-> QuickFetchMs] }

\* quotes are prices in hundredths of a rupee, as NSE publishes them
PriceCents == {9699, 9700, 10000}
PrevCloseCents == CHOOSE c \in {9950} : TRUE
WarmCents(n) == IF n = 1 THEN 10100 ELSE IF n = 2 THEN 9900 ELSE 10000

Num(c) == [tag |-> "num", v |-> c]
Missing == [tag |-> "missing", v |-> 0]
Unparseable == [tag |-> "bad", v |-> 0]

GoodQuote(c) == [raised |-> FALSE, hasInfo |-> TRUE,
                 lastPrice |-> Num(c), previousClose |-> Num(PrevCloseCents)]

\* what nsefetch may hand back: it raises, or returns a payload without
\* priceInfo, or one whose fields are absent, not numbers, or numbers
Responses ==
    {GoodQuote(c) : c \in PriceCents}
    \cup { [raised |-> TRUE, hasInfo |-> FALSE,
            lastPrice |-> Missing, previousClose |-> Missing],
           [raised |-> FALSE, hasInfo |-> FALSE,
            lastPrice |-> Missing, previousClose |-> Missing] }
    \cup { [raised |-> FALSE, hasInfo |-> TRUE, lastPrice |-> l, previousClose |-> c] :
             l \in {Missing, Unparseable}, c \in {Num(PrevCloseCents)} }
    \cup { [raised |-> FALSE, hasInfo |-> TRUE, lastPrice |-> Num(10000), previousClose |-> c] :
             c \in {Missing, Unparseable} }

NoResponse == [raised |-> FALSE, hasInfo |-> FALSE,
               lastPrice |-> Missing, previousClose |-> Missing]

(***************************************************************************)
(* State.                                                                  *)
(***************************************************************************)
VARIABLES
    sel,          \* self.sel: the instrument chosen in the combobox
    zoom_factor,  \* self.zoom_factor
    price_buf,    \* self.price_buf: sequence of <<time, price>>
    pc,           \* "Idle", or "Fetching" while update_live_graph waits in nsefetch
    s,            \* the local s of the running update_live_graph
    timers,       \* pending root.after callbacks (the first call of __init__ counts)
    clock,        \* wall clock: milliseconds since the first call of line 36
    due,          \* the earliest time the pending root.after callback may run
    q,            \* the local q: the last response of nsefetch, none while fetching
    outcome,      \* "None", "Appended" or "Failed": how the last tick ended
    drawn,        \* what the last successful tick put on the canvas
    hist,         \* history: every observation appended, in order
    n_tick,       \* history: fetches started
    n_in,         \* history: Zoom In commands
    n_out,        \* history: Zoom Out commands
    n_sel,        \* history: selections
    n_ref,        \* history: Refresh commands
    env           \* the scenario of this run

vars == <<sel, zoom_factor, price_buf, pc, s, timers, clock, due, q, outcome,
          drawn, hist, n_tick, n_in, n_out, n_sel, n_ref, env>>

NoDraw == [shown |-> FALSE, sym |-> "", n |-> 0, up |-> FALSE, color |-> "",
           pad |-> FZero, zoom |-> FZero, prev_close |-> FZero]

(***************************************************************************)
(* update_live_graph, piece by piece.                                      *)
(***************************************************************************)
\* mutant: previousClose read with a default, as load_daily_performance reads
\* its fields
ObserveLenient(r) ==
    IF r.raised \/ ~r.hasInfo \/ r.lastPrice.tag # "num" \/ r.previousClose.tag = "bad"
    THEN [ok |-> FALSE, price |-> FZero, prev_close |-> FZero]
    ELSE [ok |-> TRUE, price |-> FromRatio(r.lastPrice.v, 100),
          prev_close |-> FromRatio(r.previousClose.v, 100)]

\* lines 135-137: the quote or the exception
Observe(r) ==
    IF r.raised \/ ~r.hasInfo \/ r.lastPrice.tag # "num" \/ r.previousClose.tag # "num"
    THEN [ok |-> FALSE, price |-> FZero, prev_close |-> FZero]
    ELSE [ok |-> TRUE, price |-> FromRatio(r.lastPrice.v, 100),
          prev_close |-> FromRatio(r.previousClose.v, 100)]

\* mutant: buf[:300], the oldest samples kept
TruncateKeepOldest(buf) ==
    IF Len(buf) > Capacity THEN SubSeq(buf, 1, Capacity) ELSE buf

\* line 140: buf[-300:]
Truncate(buf) ==
    IF Len(buf) > Capacity THEN SubSeq(buf, Len(buf) - Capacity + 1, Len(buf)) ELSE buf

\* lines 139-140
Push(buf, now, price) == Truncate(Append(buf, <<now, price>>))

\* line 142: p of zip(*self.price_buf)
PricesOf(buf) == [i \in 1..Len(buf) |-> buf[i][2]]

\* mutant: the latest price against the one before it
TrendOfLastStep(p) == FGe(p[Len(p)], p[IF Len(p) > 1 THEN Len(p) - 1 ELSE 1])

\* line 143
Trend(p) == FGe(p[Len(p)], p[1])

\* line 144
ColorOf(up) == IF up THEN ColorUp ELSE ColorDown

\* max(p) and min(p): the greatest and the least of the prices that occur
FMax(p) ==
    LET vals == {p[i] : i \in 1..Len(p)}
    IN  CHOOSE x \in vals : \A y \in vals : FGe(x, y)

FMin(p) ==
    LET vals == {p[i] : i \in 1..Len(p)}
    IN  CHOOSE x \in vals : \A y \in vals : FGe(y, x)

\* lines 168-169
Range(p) ==
    LET rng == FSub(FMax(p), FMin(p))
    IN  IF rng = FZero THEN FMul(p[Len(p)], FlatShare) ELSE rng

\* mutant: the zoom factor applied to a real price range only
PadFlatUnzoomed(p, zf) ==
    IF FSub(FMax(p), FMin(p)) = FZero THEN FMul(Range(p), PadShare)
    ELSE FMul(FMul(Range(p), PadShare), zf)

\* line 170
Pad(p, zf) == FMul(FMul(Range(p), PadShare), zf)

\* mutant: the values derived before the append of line 139
RenderBeforeAppend(buf, sym, zf, prev_close) ==
    LET p == PricesOf(SubSeq(buf, 1, Len(buf) - 1))
    IN  IF Len(p) = 0
        THEN [shown |-> TRUE, sym |-> sym, n |-> 0, up |-> FALSE,
              color |-> ColorDown, pad |-> FZero, zoom |-> zf,
              prev_close |-> prev_close]
        ELSE [shown |-> TRUE, sym |-> sym, n |-> Len(p), up |-> Trend(p),
              color |-> ColorOf(Trend(p)), pad |-> Pad(p, zf), zoom |-> zf,
              prev_close |-> prev_close]

\* lines 142-182: what the tick draws from the buffer
Render(buf, sym, zf, prev_close) ==
    LET p == PricesOf(buf)
    IN  [shown |-> TRUE, sym |-> sym, n |-> Len(p), up |-> Trend(p),
         color |-> ColorOf(Trend(p)), pad |-> Pad(p, zf), zoom |-> zf,
         prev_close |-> prev_close]

\* mutant: = instead of *=
zoomAssign(f, factor) == factor

\* line 126
zoom(f, factor) == FMul(f, factor)

\* mutant: root.after inside the try block, skipped by an exception
RearmOnSuccess(n, ok) == IF ok THEN n + 1 ELSE n

\* mutant: the next call scheduled by update_live_graph as well as by the loop
RearmTwice(n, ok) == n + 2

\* line 130: after update_live_graph has returned, however it ended
Rearm(n, ok) == n + 1

(***************************************************************************)
(* Actions.  Tk runs one callback at a time and nsefetch blocks it, so no  *)
(* command is handled while pc = "Fetching"; commands start with           *)
(* root.mainloop(), after the first tick made by __init__.                 *)
(***************************************************************************)
Init ==
    /\ sel = STOCKS[1]
    /\ zoom_factor = FOne
    /\ price_buf = <<>>
    /\ pc = "Idle"
    /\ s = STOCKS[1]
    /\ timers = 1
    /\ clock = 0
    /\ due = 0
    /\ q = NoResponse
    /\ outcome = "None"
    /\ drawn = NoDraw
    /\ hist = <<>>
    /\ n_tick = 0
    /\ n_in = 0
    /\ n_out = 0
    /\ n_sel = 0
    /\ n_ref = 0
    /\ env \in Scenarios

UserMayAct == pc = "Idle" /\ n_tick >= 1 /\ n_tick >= env.warm

Feed == IF n_tick <= env.warm THEN {GoodQuote(WarmCents(n_tick))} ELSE Responses

Latency == env.fetch_ms

\* line 130: the callback runs no earlier than REFRESH_MS after root.after
\* was called, and root.after is called when update_live_graph has returned
TimerDue(armed_at) == armed_at + REFRESH_MS

\* the event loop runs a due callback once the handler it is in has returned
FiresAt(now, due_at) == IF now > due_at THEN now ELSE due_at

\* update_live_graph_loop is called: line 133, then the fetch of line 135 starts
TickStart ==
    /\ pc = "Idle"
    /\ timers > 0
    /\ n_tick < env.ticks
    /\ timers' = timers - 1
    /\ s' = sel
    /\ pc' = "Fetching"
    /\ clock' = FiresAt(clock, due)
    /\ n_tick' = n_tick + 1
    /\ q' = NoResponse
    /\ UNCHANGED <<sel, zoom_factor, price_buf, due, outcome, drawn, hist,
                   n_in, n_out, n_sel, n_ref, env>>

\* the fetch returns or raises: the rest of update_live_graph, then line 130
TickFinish ==
    /\ pc = "Fetching"
    /\ \E r \in Feed, took \in Latency, draw \in DrawMs :
         LET o   == Observe(r)
             now == clock + took      \* line 138: datetime.now() after the fetch
         IN  /\ q' = r
             /\ IF o.ok
                THEN /\ price_buf' = Push(price_buf, now, o.price)
                     /\ hist' = Append(hist, [t |-> now, p |-> o.price,
                                              sym |-> s, k |-> n_tick])
                     /\ drawn' = Render(price_buf', s, zoom_factor, o.prev_close)
                     /\ outcome' = "Appended"
                     /\ clock' = now + draw
                ELSE /\ outcome' = "Failed"
                     /\ clock' = now
                     /\ UNCHANGED <<price_buf, hist, drawn>>
             /\ timers' = Rearm(timers, o.ok)
    /\ due' = TimerDue(clock')
    /\ pc' = "Idle"
    /\ UNCHANGED <<sel, zoom_factor, s, n_tick, n_in, n_out, n_sel, n_ref, env>>

ZoomIn ==
    /\ UserMayAct
    /\ n_in + n_out < env.zooms
    /\ zoom_factor' = zoom(zoom_factor, ZoomInStep)
    /\ n_in' = n_in + 1
    /\ UNCHANGED <<sel, price_buf, pc, s, timers, clock, due, q, outcome, drawn,
                   hist, n_tick, n_out, n_sel, n_ref, env>>

ZoomOut ==
    /\ UserMayAct
    /\ n_in + n_out < env.zooms
    /\ zoom_factor' = zoom(zoom_factor, ZoomOutStep)
    /\ n_out' = n_out + 1
    /\ UNCHANGED <<sel, price_buf, pc, s, timers, clock, due, q, outcome, drawn,
                   hist, n_tick, n_in, n_sel, n_ref, env>>

Select ==
    /\ UserMayAct
    /\ n_sel < env.sels
    /\ \E x \in Tracked \ {sel} : sel' = x
    /\ n_sel' = n_sel + 1
    /\ UNCHANGED <<zoom_factor, price_buf, pc, s, timers, clock, due, q, outcome,
                   drawn, hist, n_tick, n_in, n_out, n_ref, env>>

\* a Refresh button is pressed while the next tick is pending: one blocking
\* nsefetch for each of STOCKS, in the event loop.  The rows the handler
\* puts in its own table are not part of the live graph and are left out.
Refresh ==
    /\ UserMayAct
    /\ n_ref < env.refreshes
    /\ \E wait \in WaitMs, took \in Latency :
         /\ clock + wait < due
         /\ clock' = clock + wait + Len(STOCKS) * took
    /\ n_ref' = n_ref + 1
    /\ UNCHANGED <<sel, zoom_factor, price_buf, pc, s, timers, due, q, outcome,
                   drawn, hist, n_tick, n_in, n_out, n_sel, env>>

\* lines 46 and 76-106
LoadPredictions == Refresh

\* lines 69 and 108-123
LoadDailyPerformance == Refresh

Next ==
    \/ TickStart \/ TickFinish \/ ZoomIn \/ ZoomOut \/ Select
    \/ LoadPredictions \/ LoadDailyPerformance

Spec == Init /\ [][Next]_vars

(***************************************************************************)
(* Properties.                                                             *)
(***************************************************************************)
Min2(a, b) == IF a < b THEN a ELSE b

\* the appended observation that the i-th sample of the window should be
Origin(i) == hist[Len(hist) - Len(price_buf) + i]

Latest == price_buf[Len(price_buf)][2]
Oldest == price_buf[1][2]
Peak == FMax(PricesOf(price_buf))
Trough == FMin(PricesOf(price_buf))

\* C1: after every append the window holds at most Capacity samples, and they
\* are the most recent min(n, Capacity) observations, oldest first; so an
\* append to a full window drops exactly the oldest sample and puts the new
\* one last.
C1_BoundedFifoWindow ==
    /\ Len(price_buf) <= Capacity
    /\ Len(price_buf) = Min2(Len(hist), Capacity)
    /\ \A i \in 1..Len(price_buf) :
         price_buf[i] = <<Origin(i).t, Origin(i).p>>

C1_Witness ==
    /\ Len(hist) > Capacity + 1
    /\ Len(price_buf) = Capacity
    /\ outcome = "Appended"

\* C2: windows are per instrument: the window drawn for an instrument holds
\* only samples observed for that instrument, whatever was selected and
\* fetched in between.
C2_WindowPerInstrument ==
    drawn.shown =>
        \A i \in 1..Len(price_buf) : Origin(i).sym = drawn.sym

\* what C3 calls a fetch that does not fail
Usable(r) ==
    /\ ~r.raised
    /\ r.hasInfo
    /\ r.lastPrice.tag = "num"
    /\ r.previousClose.tag = "num"

\* C3: a tick whose fetch fails in any way (it raises, priceInfo is absent,
\* lastPrice or previousClose is absent or not a number) leaves the window as
\* it was.
C3_FailedTickKeepsWindow ==
    [][ (pc = "Fetching" /\ pc' = "Idle" /\ ~Usable(q'))
          => (price_buf' = price_buf /\ outcome' = "Failed") ]_vars

C3_Witness ==
    /\ outcome = "Failed"
    /\ q.lastPrice.tag = "num"
    /\ q.previousClose.tag = "missing"
    /\ Len(price_buf) >= 1

ColorAlert == "ALERT"
CrashShare == FromRatio(97, 100)
Crash == FLt(Latest, FMul(CrashShare, Peak))

\* C4: the colour is ALERT whenever the latest price is strictly below 0.97
\* times the highest price of the window, and otherwise UP for an upward
\* trend and DOWN for a downward one.
C4_CrashOverridesColor ==
    drawn.shown =>
        drawn.color = (IF Crash THEN ColorAlert
                       ELSE IF drawn.up THEN ColorUp ELSE ColorDown)

\* C5: after every successful tick trendUp is true iff the newest price is at
\* least the oldest price still in the window (the new oldest one after an
\* eviction), and it is true for a window of one sample.
C5_TrendAgainstOldestRetained ==
    drawn.shown =>
        /\ drawn.up <=> FGe(Latest, Oldest)
        /\ Len(price_buf) = 1 => drawn.up

\* an eviction has changed the answer: the sample just dropped would give the
\* opposite trend
C5_Witness ==
    /\ Len(hist) > Capacity
    /\ drawn.shown
    /\ drawn.up
    /\ ~FGe(Latest, hist[Len(hist) - Capacity].p)

RECURSIVE BPowSmall(_, _)
BPowSmall(c, n) == IF n = 0 THEN <<1>> ELSE BMulSmall(BPowSmall(c, n - 1), c)

\* | f - (4/5)^i (5/4)^o |  <=  (i + o) * 2^-52 * (4/5)^i (5/4)^o, in integers
WithinRounding(f, i, o) ==
    LET num  == BMul(BPowSmall(4, i), BPowSmall(5, o))
        den  == BMul(BPowSmall(5, i), BPowSmall(4, o))
        lhs  == BMul(f.m, den)
        rhs  == BShl(num, 0 - f.e)
        diff == IF BCmp(lhs, rhs) >= 0 THEN BSub(lhs, rhs) ELSE BSub(rhs, lhs)
    IN  f.e < 0 /\ BCmp(BShl(diff, 52), BMulSmall(rhs, i + o)) <= 0

\* C6 as claimed: equally many Zoom In and Zoom Out commands, in any order,
\* bring the factor back to 1.0.
C6_ZoomRoundTripExact == n_in = n_out => zoom_factor = FOne

\* C6 amended: the factor starts at 1.0 and every command multiplies it, in
\* binary64, by 0.8 or 1.25 with no clamp; after i Zoom In and o Zoom Out it
\* is 0.8^i * 1.25^o up to a relative rounding error of (i + o) * 2^-52, and
\* exactly 1.0 after one of each.
C6_ZoomWithinRounding ==
    /\ n_in + n_out = 0 => zoom_factor = FOne
    /\ (n_in = 1 /\ n_out = 0) => zoom_factor = ZoomInStep
    /\ (n_in = 0 /\ n_out = 1) => zoom_factor = ZoomOutStep
    /\ (n_in = 1 /\ n_out = 1) => zoom_factor = FOne
    /\ WithinRounding(zoom_factor, n_in, n_out)

C6_Witness == n_in = 2 /\ n_out = 2 /\ zoom_factor # FOne

\* C7: no tick is scheduled while a fetch is in flight and at most one is
\* scheduled at any time, so a fetch starts only after the one before it has
\* ended; the samples of the window are in the order their fetches started.
C7_OneFetchAtATime ==
    /\ pc = "Fetching" => timers = 0
    /\ timers <= 1
    /\ \A i \in 1..Len(price_buf) :
         /\ price_buf[i][1] = Origin(i).t
         /\ i < Len(price_buf) => Origin(i).k < Origin(i + 1).k
         /\ i < Len(price_buf) => price_buf[i][1] < price_buf[i + 1][1]

C7_Witness ==
    /\ pc = "Fetching"
    /\ outcome = "Failed"
    /\ Len(price_buf) >= 2

\* C8: every tick, appended or failed, leaves the scheduler idle with exactly
\* one next tick scheduled, so failures never stop the ticks and add no
\* retry of their own.
C8_EveryTickReschedules ==
    (pc = "Idle" /\ n_tick >= 1) =>
        /\ outcome \in {"Appended", "Failed"}
        /\ timers = 1

\* a tick is running after the tick before it failed
C8_Witness ==
    /\ pc = "Fetching"
    /\ outcome = "Failed"
    /\ n_tick >= 3

\* C9 as claimed: pad = (max - min) * 0.3 * factor for a window whose prices
\* differ, and pad = latest * 0.01 for a flat one, whatever the factor.
C9_PadAsClaimed ==
    drawn.shown =>
        LET spread == FSub(Peak, Trough)
        IN  drawn.pad = (IF spread # FZero
                         THEN FMul(FMul(spread, PadShare), drawn.zoom)
                         ELSE FMul(Latest, FlatShare))

\* C9 amended: for a flat window the range is replaced by latest * 0.01 and
\* the pad is that range * 0.3 * factor, like any other.
C9_PadAsCoded ==
    drawn.shown =>
        LET spread == FSub(Peak, Trough)
        IN  drawn.pad = (IF spread # FZero
                         THEN FMul(FMul(spread, PadShare), drawn.zoom)
                         ELSE FMul(FMul(FMul(Latest, FlatShare), PadShare), drawn.zoom))

C9_Witness ==
    /\ drawn.shown
    /\ Len(price_buf) >= 2
    /\ Peak = Trough
    /\ drawn.zoom # FOne

\* C10: trend, colour and pad are derived only from a window with at least
\* one observation: nothing is derived while the window is empty, and every
\* derivation reads the whole window of the moment.
C10_SignalsNeedSample ==
    /\ drawn.shown => (drawn.n >= 1 /\ drawn.n = Len(price_buf))
    /\ outcome = "Appended" => drawn.shown
    /\ ~drawn.shown => price_buf = <<>>

\* the first observation arrived after a failed tick
C10_Witness ==
    /\ drawn.shown
    /\ drawn.n = 1
    /\ n_tick >= 2
    /\ outcome = "Appended"

====
